---- MODULE Spec2Model ----
(***************************************************************************)
(* GPS LED clock (GPS-CLOCK.py and GPS-CLOCK2.py).                         *)
(*                                                                         *)
(* A Tk application reads NMEA sentences from a serial port once a second  *)
(* (update_time), shows the date and time of the first RMC sentence it     *)
(* finds, converted to the selected time zone, and re-arms itself with     *)
(* master.after(1000, update_time).  GPS-CLOCK2.py adds an analog face, a  *)
(* clock-mode menu and a fullscreen toggle.                                *)
(*                                                                         *)
(* The serial input buffer is modelled line by line: `ser` holds the       *)
(* complete lines waiting in the buffer and `partial` says whether bytes   *)
(* of a line whose terminator has not arrived follow them.  A line is the  *)
(* record of what pynmea2.parse looks at: whether the text matches the     *)
(* sentence pattern, whether the checksum agrees, the talker and sentence  *)
(* type, and the raw text of the RMC time, status and date fields (a       *)
(* sequence of one-character strings).                                     *)
(*                                                                         *)
(* The window around the two widgets (its title, its geometry, its         *)
(* fullscreen attribute and self.fullscreen, which mirrors it) is not part *)
(* of the state: nothing in the program reads it but toggle_fullscreen,    *)
(* to negate it.                                                           *)
(***************************************************************************)
EXTENDS Integers, Sequences, FiniteSets, TLC

(***************************************************************************)
(* Bounds of the model.                                                    *)
(***************************************************************************)
\* most complete lines the serial input buffer holds at once
MaxBuf == 2
\* most update_time timers pending in the Tk timer queue at once
MaxPending == 2

(***************************************************************************)
(* Text helpers: Python slices, int(), float() on field text.              *)
(***************************************************************************)
DigitChars == <<"0", "1", "2", "3", "4", "5", "6", "7", "8", "9">>

IsDigit(c) == \E i \in 1..Len(DigitChars) : DigitChars[i] = c

DigitVal(c) == (CHOOSE i \in 1..Len(DigitChars) : DigitChars[i] = c) - 1

\* Python s[a:b] for 0 <= a <= b (0-based, end exclusive, clipped to len(s))
Slice(s, a, b) ==
    LET hi == IF b < Len(s) THEN b ELSE Len(s)
    IN  IF a >= hi THEN <<>> ELSE SubSeq(s, a + 1, hi)

\* int(s) succeeds on a non-empty run of decimal digits
IntOk(s) == s # <<>> /\ \A i \in 1..Len(s) : IsDigit(s[i])

RECURSIVE IntVal(_)
IntVal(s) ==
    IF s = <<>> THEN 0
    ELSE 10 * IntVal(SubSeq(s, 1, Len(s) - 1)) + DigitVal(s[Len(s)])

\* float(s) on the fractional-seconds tail of a time field (".", digits)
FloatOk(s) ==
    /\ s # <<>>
    /\ \E i \in 1..Len(s) : IsDigit(s[i])
    /\ \A i \in 1..Len(s) : IsDigit(s[i]) \/ s[i] = "."
    /\ Cardinality({i \in 1..Len(s) : s[i] = "."}) <= 1

(***************************************************************************)
(* Calendar.                                                               *)
(***************************************************************************)
IsLeap(y) == (y % 4 = 0 /\ y % 100 # 0) \/ y % 400 = 0

DaysInMonth(y, m) ==
    IF m = 2 THEN (IF IsLeap(y) THEN 29 ELSE 28)
    ELSE IF m \in {4, 6, 9, 11} THEN 30 ELSE 31

NextDay(d) ==
    IF d.day < DaysInMonth(d.year, d.month)
    THEN [d EXCEPT !.day = d.day + 1]
    ELSE IF d.month < 12
    THEN [d EXCEPT !.month = d.month + 1, !.day = 1]
    ELSE [d EXCEPT !.year = d.year + 1, !.month = 1, !.day = 1]

PrevDay(d) ==
    IF d.day > 1
    THEN [d EXCEPT !.day = d.day - 1]
    ELSE IF d.month > 1
    THEN [d EXCEPT !.month = d.month - 1,
                   !.day = DaysInMonth(d.year, d.month - 1)]
    ELSE [d EXCEPT !.year = d.year - 1, !.month = 12, !.day = 31]

(***************************************************************************)
(* The lines a GPS receiver may put on the serial port.  The buffer holds  *)
(* them by name; Text gives what each one says.                            *)
(***************************************************************************)
NoField == <<>>

Line(framed, checksum, talker, sentence, time, status, date) ==
    [framed |-> framed, checksum |-> checksum, talker |-> talker,
     sentence |-> sentence, time |-> time, status |-> status, date |-> date]

Text ==
    [ \* $GPRMC,123519,A,...,230394,...  valid fix, 1994-03-23 12:35:19 UTC
      RmcA |-> Line(TRUE, "ok", "GP", "RMC",
                    <<"1", "2", "3", "5", "1", "9">>, "A",
                    <<"2", "3", "0", "3", "9", "4">>),
      \* $GPRMC,000000,A,...,010100,...  valid fix, midnight of 2000-01-01
      RmcZero |-> Line(TRUE, "ok", "GP", "RMC",
                       <<"0", "0", "0", "0", "0", "0">>, "A",
                       <<"0", "1", "0", "1", "0", "0">>),
      \* $GPRMC,123519,V,...,230394,...  the same without a valid fix
      RmcV |-> Line(TRUE, "ok", "GP", "RMC",
                    <<"1", "2", "3", "5", "1", "9">>, "V",
                    <<"2", "3", "0", "3", "9", "4">>),
      \* $GPRMC,12x519,A,...,230394,...  correct checksum, time not a number
      RmcBadTime |-> Line(TRUE, "ok", "GP", "RMC",
                          <<"1", "2", "x", "5", "1", "9">>, "A",
                          <<"2", "3", "0", "3", "9", "4">>),
      \* $GPGGA,...                      a recognised sentence that is not RMC
      Gga |-> Line(TRUE, "ok", "GP", "GGA", NoField, "", NoField),
      \* RmcA with one byte corrupted: the checksum no longer agrees
      BadSum |-> Line(TRUE, "bad", "GP", "RMC",
                      <<"1", "2", "3", "5", "1", "9">>, "A",
                      <<"2", "3", "0", "3", "9", "4">>),
      \* $GPXYZ,...                      a sentence type pynmea2 does not know
      Unknown |-> Line(TRUE, "ok", "GP", "XYZ", NoField, "", NoField),
      \* line noise: text that does not match the NMEA sentence pattern
      Noise |-> Line(FALSE, "", "", "", NoField, "", NoField) ]

Lines == DOMAIN Text

(***************************************************************************)
(* pynmea2.parse(line), the field converters that msg.timestamp and        *)
(* msg.datestamp go through, and the test update_time makes on the result. *)
(***************************************************************************)
\* the sentence classes pynmea2 registers (those a GPS receiver emits)
SentenceTypes == {"RMC", "GGA", "GSA", "GSV", "GLL", "VTG"}

\* fault: a parse that does not compare the checksum (pynmea2.parse called
\* with check=False semantics)
parse_unchecked(l) ==
    IF ~Text[l].framed THEN [exc |-> "ParseError", cls |-> ""]
    ELSE IF Text[l].sentence \notin SentenceTypes
    THEN [exc |-> "ParseError", cls |-> ""]
    ELSE [exc |-> "none", cls |-> Text[l].sentence]

\* pynmea2.parse: ParseError when the text does not match the sentence
\* pattern, ChecksumError when the checksum differs, SentenceTypeError for
\* an unregistered type (both are subclasses of ParseError); otherwise an
\* instance of the sentence's class
parse(l) ==
    IF ~Text[l].framed THEN [exc |-> "ParseError", cls |-> ""]
    ELSE IF Text[l].checksum # "ok" THEN [exc |-> "ParseError", cls |-> ""]
    ELSE IF Text[l].sentence \notin SentenceTypes
    THEN [exc |-> "ParseError", cls |-> ""]
    ELSE [exc |-> "none", cls |-> Text[l].sentence]

\* pynmea2 timestamp(s): "hhmmss[.ss]" -> datetime.time; fails (ValueError)
\* when a slice is not a number or a value is out of range.  The fraction
\* is parsed but no output of the clock shows it, so it is not kept.
timestamp(s) ==
    LET hh == Slice(s, 0, 2)
        mm == Slice(s, 2, 4)
        ss == Slice(s, 4, 6)
        ms == Slice(s, 6, Len(s))
    IN  IF /\ IntOk(hh) /\ IntOk(mm) /\ IntOk(ss)
           /\ (ms = <<>> \/ FloatOk(ms))
           /\ IntVal(hh) <= 23 /\ IntVal(mm) <= 59 /\ IntVal(ss) <= 59
        THEN [tag |-> "time", hour |-> IntVal(hh), minute |-> IntVal(mm),
              second |-> IntVal(ss)]
        ELSE [tag |-> "error"]

\* fault: every two-digit year taken as a year of 2000..2099
Year2000s(yy) == 2000 + yy

\* the %y rule of strptime: 00..68 are 2000..2068, 69..99 are 1969..1999
Year2(yy) == IF yy <= 68 THEN 2000 + yy ELSE 1900 + yy

\* pynmea2 datestamp(s): strptime(s, '%d%m%y').date() on a six-character
\* ddmmyy field (the only non-empty width the lines of this model carry)
datestamp(s) ==
    LET dd == Slice(s, 0, 2)
        mm == Slice(s, 2, 4)
        yy == Slice(s, 4, 6)
    IN  IF /\ Len(s) = 6 /\ IntOk(dd) /\ IntOk(mm) /\ IntOk(yy)
           /\ IntVal(mm) \in 1..12
           /\ IntVal(dd) \in 1..DaysInMonth(Year2(IntVal(yy)), IntVal(mm))
        THEN [tag |-> "date", year |-> Year2(IntVal(yy)),
              month |-> IntVal(mm), day |-> IntVal(dd)]
        ELSE [tag |-> "error"]

\* NMEASentence.__getattr__ for a field with a converter: an empty field is
\* None, a field the converter rejects comes back as its raw text
TimestampAttr(s) ==
    IF s = NoField THEN [tag |-> "None"]
    ELSE IF timestamp(s).tag = "error" THEN [tag |-> "str"]
    ELSE timestamp(s)

DatestampAttr(s) ==
    IF s = NoField THEN [tag |-> "None"]
    ELSE IF datestamp(s).tag = "error" THEN [tag |-> "str"]
    ELSE datestamp(s)

\* the date field of 1 January of the two-digit year yy: "0101yy"
DateField(yy) ==
    <<"0", "1", "0", "1", DigitChars[(yy \div 10) + 1], DigitChars[(yy % 10) + 1]>>

\* msg.datestamp of an RMC line with that date field, for every yy
YearOfField == [yy \in 0..99 |-> DatestampAttr(DateField(yy))]

\* msg.timestamp and msg.datestamp of every line, computed once
Attrs == [l \in Lines |-> [timestamp |-> TimestampAttr(Text[l].time),
                           datestamp |-> DatestampAttr(Text[l].date)]]

\* Python truth of an attribute value: None is false; a non-empty str, a
\* datetime.date and a datetime.time (midnight included) are true
Truthy(v) == v.tag # "None"

\* isinstance(msg, RMC) and msg.timestamp and msg.datestamp
IsHit(l) ==
    /\ parse(l).cls = "RMC"
    /\ Truthy(Attrs[l].timestamp)
    /\ Truthy(Attrs[l].datestamp)

(***************************************************************************)
(* Time zones (pytz) and the two renderings.                               *)
(***************************************************************************)
\* the zones of the pytz database this model carries, with their offset
\* from UTC in hours (neither has had DST in 1969..2068)
ZoneOffset == ("UTC" :> 0) @@ ("Asia/Tokyo" :> 9)

\* a TimeZone value of config.ini that pytz does not know
BadZone == "Mars/Phobos"

\* the entries of the Time Zone menu that this model carries
TimeZoneMenu(a) ==
    IF a = "GPS-CLOCK" THEN {"Asia/Tokyo"} ELSE {"UTC", "Asia/Tokyo"}

\* pytz.timezone(name) raises UnknownTimeZoneError for an unknown name
ZoneKnown(tz) == tz \in DOMAIN ZoneOffset

\* datetime.combine(date, time) raises TypeError unless it is given a date
\* and a time
CombineOk(l) ==
    /\ Attrs[l].datestamp.tag = "date"
    /\ Attrs[l].timestamp.tag = "time"

\* datetime.combine(d, t).replace(tzinfo=pytz.UTC).astimezone(timezone)
Localize(d, t, tz) ==
    LET h   == t.hour + ZoneOffset[tz]
        day == [year |-> d.year, month |-> d.month, day |-> d.day]
        loc == IF h >= 24 THEN NextDay(day)
               ELSE IF h < 0 THEN PrevDay(day) ELSE day
    IN  [year |-> loc.year, month |-> loc.month, day |-> loc.day,
         hour |-> (h + 24) % 24, minute |-> t.minute, second |-> t.second]

\* fault: the astimezone(timezone) step left out, so the datetime stays in
\* UTC whatever zone is selected
datetime_obj_utc(l, tz) ==
    Localize(Attrs[l].datestamp, Attrs[l].timestamp, "UTC")

\* the aware datetime update_time builds from a hit
datetime_obj(l, tz) ==
    Localize(Attrs[l].datestamp, Attrs[l].timestamp, tz)

\* strftime('%Y-%m-%d\n%H:%M:%S'): the six numbers of the label text
strftime(dt) == <<dt.year, dt.month, dt.day, dt.hour, dt.minute, dt.second>>

\* draw_analog_clock: the canvas is cleared and the three hands are drawn
draw_analog_clock(dt) == <<dt.hour % 12, dt.minute, dt.second>>

\* a Label without text, a Canvas without items
Blank == <<>>

(***************************************************************************)
(* State.                                                                  *)
(***************************************************************************)
VARIABLES
    app,                 \* which program runs: "GPS-CLOCK" or "GPS-CLOCK2"
    phase,               \* "init" (in __init__), "mainloop", "crashed"
    ser,                 \* complete lines waiting in the serial input buffer
    partial,             \* bytes of an unterminated line follow them
    config,              \* TimeZone of [Settings] in config.ini, or NoConfig
    selected_time_zone,  \* self.selected_time_zone
    clock_mode,          \* self.clock_mode: Unset, "digital" or "analog"
    time_label,          \* text of self.time_label
    canvas,              \* what is drawn on self.canvas
    pending,             \* update_time callbacks waiting in the timer queue
    running,             \* the caller of an update_time waiting in readline
    last                 \* the update_time invocation made by the last step

vars == <<app, phase, ser, partial, config, selected_time_zone, clock_mode,
          time_label, canvas, pending, running, last>>

\* config.ini does not exist or has no TimeZone option
NoConfig == "<none>"

\* an attribute that has not been assigned
Unset == "<unset>"

\* no update_time invocation waits in readline
Nobody == "<nobody>"

\* `last` when the last step was not an update_time invocation.  Otherwise
\* it holds who called update_time, how many lines it has read, how many
\* "Parse error" diagnostics it has printed, the line that passed the RMC
\* test, how it ended, and the line whose arrival let it go on when it was
\* waiting in readline.
NoLast == [caller |-> Nobody, nread |-> 0, nerr |-> 0, hit |-> <<>>,
           outcome |-> "none", arrived |-> <<>>]

(***************************************************************************)
(* update_time.                                                            *)
(***************************************************************************)
RECURSIVE ReadLoop(_, _, _, _)

\* fault: a read timeout on the port, so readline() returns the bytes of
\* an unterminated line as they are; they go to pynmea2.parse, which raises
\* ParseError on the truncated text, and in_waiting is then 0
ReadlineTimesOut(part, n, e) ==
    IF part
    THEN [at |-> "end", nread |-> n + 1, nerr |-> e + 1, hit |-> <<>>,
          rest |-> <<>>]
    ELSE [at |-> "end", nread |-> n, nerr |-> e, hit |-> <<>>, rest |-> <<>>]

\* no complete line is left in the buffer: in_waiting is 0 and the while
\* loop ends, or the bytes of an unterminated line make in_waiting non-zero
\* and readline(), the port having no timeout, waits for the "\n"
NoCompleteLine(part, n, e) ==
    [at |-> IF part THEN "readline" ELSE "end", nread |-> n, nerr |-> e,
     hit |-> <<>>, rest |-> <<>>]

\* fault: the except clause around the while loop instead of inside it, so
\* the first line that does not decode ends the loop
ExceptParseErrorAborts(buf, part, n, e) ==
    [at |-> "end", nread |-> n + 1, nerr |-> e + 1, hit |-> <<>>,
     rest |-> Tail(buf)]

\* except pynmea2.ParseError: print(...), and the while loop goes on
ExceptParseError(buf, part, n, e) == ReadLoop(Tail(buf), part, n + 1, e + 1)

\* the while loop of update_time over the buffer `buf` (followed by an
\* unterminated line when `part`), n lines having been read and e parse
\* errors printed.  It ends
\*   at "end"      when in_waiting is 0,
\*   at "readline" when only an unterminated line is left: in_waiting is
\*                 not 0 and readline() (no timeout is set) waits for "\n",
\*   at "hit"      on the first line that passes the RMC test.
\* `hit` holds that line, `rest` what is left in the buffer.
ReadLoop(buf, part, n, e) ==
    IF buf = <<>>
    THEN NoCompleteLine(part, n, e)
    ELSE IF parse(Head(buf)).exc # "none"
    THEN ExceptParseError(buf, part, n, e)
    ELSE IF ~IsHit(Head(buf))
    THEN ReadLoop(Tail(buf), part, n + 1, e)
    ELSE [at |-> "hit", nread |-> n + 1, nerr |-> e, hit |-> <<Head(buf)>>,
          rest |-> Tail(buf)]

\* the body of the if statement on a hit: the exception that leaves
\* update_time (none of them is caught), or "break"
HitOutcome(l, tz, a, mode) ==
    IF ~CombineOk(l) THEN "TypeError"
    ELSE IF ~ZoneKnown(tz) THEN "UnknownTimeZoneError"
    ELSE IF a = "GPS-CLOCK2" /\ mode = Unset THEN "AttributeError"
    ELSE "break"

\* how an update_time invocation ends
Outcome(r, tz, a, mode) ==
    IF r.at = "hit" THEN HitOutcome(r.hit[1], tz, a, mode) ELSE r.at

\* the loop was left normally, so master.after(1000, self.update_time) runs
Reschedules(out) == out \in {"end", "break"}

Raised(out) == out \in {"TypeError", "UnknownTimeZoneError", "AttributeError"}

\* self.time_label["text"] after the invocation
LabelAfter(r, out, tz, a, mode) ==
    IF out = "break" /\ (a = "GPS-CLOCK" \/ mode = "digital")
    THEN strftime(datetime_obj(r.hit[1], tz))
    ELSE time_label

\* the canvas after the invocation
CanvasAfter(r, out, tz, a, mode) ==
    IF out = "break" /\ a = "GPS-CLOCK2" /\ mode = "analog"
    THEN draw_analog_clock(datetime_obj(r.hit[1], tz))
    ELSE canvas

\* what update_time leaves behind when `caller` ("init": __init__, "timer":
\* the Tk timer, "menu": set_clock_mode) calls it on the buffer `buf`
\* (followed by an unterminated line when `part`), with clock_mode `mode`
\* and `pend` other callbacks in the timer queue; `got` is the line whose
\* arrival ended a wait in readline, n and e count what the invocation had
\* read and printed before that wait.  An exception leaves __init__ and
\* ends the program; in a Tk callback it is reported and the main loop
\* goes on.  __init__ assigns clock_mode after update_time has returned.
Result(caller, buf, part, got, n, e, mode, pend) ==
    LET r   == ReadLoop(buf, part, n, e)
        out == Outcome(r, selected_time_zone, app, mode)
    IN  [ser        |-> r.rest,
         partial    |-> part,
         time_label |-> LabelAfter(r, out, selected_time_zone, app, mode),
         canvas     |-> CanvasAfter(r, out, selected_time_zone, app, mode),
         pending    |-> IF Reschedules(out) THEN pend + 1 ELSE pend,
         running    |-> IF out = "readline" THEN caller ELSE Nobody,
         phase      |-> IF caller # "init" \/ out = "readline" THEN phase
                        ELSE IF Raised(out) THEN "crashed" ELSE "mainloop",
         clock_mode |-> IF caller = "init" /\ Reschedules(out)
                           /\ app = "GPS-CLOCK2"
                        THEN "digital" ELSE mode,
         last       |-> [caller |-> caller, nread |-> r.nread,
                         nerr |-> r.nerr, hit |-> r.hit, outcome |-> out,
                         arrived |-> got]]

\* an invocation of update_time, as a step
update_time(caller, buf, part, got, n, e, mode, pend) ==
    \E R \in {Result(caller, buf, part, got, n, e, mode, pend)} :
        /\ ser' = R.ser
        /\ partial' = R.partial
        /\ time_label' = R.time_label
        /\ canvas' = R.canvas
        /\ pending' = R.pending
        /\ running' = R.running
        /\ phase' = R.phase
        /\ clock_mode' = R.clock_mode
        /\ last' = R.last
        /\ UNCHANGED <<app, config, selected_time_zone>>

(***************************************************************************)
(* Initial state: the object when serial.Serial(port, baudrate) has        *)
(* returned, before __init__ calls update_time.                            *)
(***************************************************************************)
\* what config.ini may hold when the program starts
ConfigFiles == {NoConfig, "Asia/Tokyo", BadZone}

\* load_config: config.get('Settings', 'TimeZone', fallback='UTC')
load_config(c) == IF c = NoConfig THEN "UTC" ELSE c

Init ==
    /\ app \in {"GPS-CLOCK", "GPS-CLOCK2"}
    /\ phase = "init"
    /\ ser = <<>>
    /\ partial = FALSE
    /\ config \in ConfigFiles
    /\ selected_time_zone = load_config(config)
    /\ clock_mode = Unset
    /\ time_label = Blank
    /\ canvas = Blank
    /\ pending = 0
    /\ running = Nobody
    /\ last = NoLast

(***************************************************************************)
(* The receiver: bytes arrive in the serial input buffer.                  *)
(***************************************************************************)
\* a whole line arrives
RecvLine(l) ==
    /\ phase # "crashed" /\ running = Nobody
    /\ ~partial /\ Len(ser) < MaxBuf
    /\ ser' = Append(ser, l)
    /\ last' = NoLast
    /\ UNCHANGED <<app, phase, partial, config, selected_time_zone,
                   clock_mode, time_label, canvas, pending,
                   running>>

\* the first bytes of a line arrive, its terminator not yet
RecvPartial ==
    /\ phase # "crashed" /\ running = Nobody
    /\ ~partial /\ Len(ser) < MaxBuf
    /\ partial' = TRUE
    /\ last' = NoLast
    /\ UNCHANGED <<app, phase, ser, config, selected_time_zone, clock_mode,
                   time_label, canvas, pending, running>>

\* the rest of the unterminated line arrives: it is the line l
RecvRest(l) ==
    /\ phase # "crashed" /\ running = Nobody
    /\ partial
    /\ ser' = Append(ser, l)
    /\ partial' = FALSE
    /\ last' = NoLast
    /\ UNCHANGED <<app, phase, config, selected_time_zone, clock_mode,
                   time_label, canvas, pending, running>>

(***************************************************************************)
(* The program.                                                            *)
(***************************************************************************)
\* __init__ from its call of update_time on
Construct ==
    /\ phase = "init" /\ running = Nobody
    /\ update_time("init", ser, partial, <<>>, 0, 0, clock_mode, pending)

\* a pending timer fires: Tk calls update_time
Tick ==
    /\ phase = "mainloop" /\ running = Nobody
    /\ pending > 0
    /\ update_time("timer", ser, partial, <<>>, 0, 0, clock_mode, pending - 1)

\* the update_time invocation waiting in readline gets the rest of its
\* line, the line l, and goes on
ReadlineReturns(l) ==
    /\ running # Nobody
    /\ update_time(running, <<l>>, FALSE, <<l>>, last.nread, last.nerr,
                   clock_mode, pending)

\* set_time_zone(tz), from the Time Zone menu
set_time_zone(tz) ==
    /\ phase = "mainloop" /\ running = Nobody
    /\ selected_time_zone' = tz
    /\ config' = tz
    /\ last' = NoLast
    /\ UNCHANGED <<app, phase, ser, partial, clock_mode,
                   time_label, canvas, pending, running>>

\* set_clock_mode(mode), from the Clock Mode menu of GPS-CLOCK2
set_clock_mode(mode) ==
    /\ app = "GPS-CLOCK2"
    /\ phase = "mainloop" /\ running = Nobody
    /\ pending < MaxPending
    /\ update_time("menu", ser, partial, <<>>, 0, 0, mode, pending)

\* what datetime.now() may read from the computer's clock (as UTC): it is
\* not a time any sentence of Text carries
SystemClock ==
    {[date |-> [tag |-> "date", year |-> 2024, month |-> 6, day |-> 8],
      time |-> [tag |-> "time", hour |-> 10, minute |-> 10, second |-> 10]]}

\* center_clock: in analog mode the face is redrawn from
\* datetime.now(pytz.timezone(self.selected_time_zone)), reading `now`;
\* pytz raises for an unknown zone and the face stays as it was.  In
\* digital mode only the size of the label changes.
center_clock(now) ==
    IF clock_mode = "analog" /\ ZoneKnown(selected_time_zone)
    THEN draw_analog_clock(Localize(now.date, now.time, selected_time_zone))
    ELSE canvas

\* toggle_fullscreen, bound to Control-f in GPS-CLOCK2: the window
\* attribute is switched, then center_clock
toggle_fullscreen ==
    /\ app = "GPS-CLOCK2"
    /\ phase = "mainloop" /\ running = Nobody
    /\ \E now \in SystemClock : canvas' = center_clock(now)
    /\ last' = NoLast
    /\ UNCHANGED <<app, phase, ser, partial, config, selected_time_zone,
                   clock_mode, time_label, pending, running>>

\* exit_fullscreen, bound to Control-q in GPS-CLOCK2: the window attribute
\* is cleared, then center_clock
exit_fullscreen ==
    /\ app = "GPS-CLOCK2"
    /\ phase = "mainloop" /\ running = Nobody
    /\ \E now \in SystemClock : canvas' = center_clock(now)
    /\ last' = NoLast
    /\ UNCHANGED <<app, phase, ser, partial, config, selected_time_zone,
                   clock_mode, time_label, pending, running>>

Next ==
    \/ \E l \in Lines : RecvLine(l)
    \/ RecvPartial
    \/ \E l \in Lines : RecvRest(l)
    \/ Construct
    \/ Tick
    \/ \E l \in Lines : ReadlineReturns(l)
    \/ \E tz \in TimeZoneMenu(app) : set_time_zone(tz)
    \/ \E mode \in {"digital", "analog"} : set_clock_mode(mode)
    \/ toggle_fullscreen
    \/ exit_fullscreen

Spec == Init /\ [][Next]_vars

(***************************************************************************)
(* What the claims speak of.                                               *)
(***************************************************************************)
\* the last step called update_time, or let a waiting invocation go on
Invoked == last.caller # Nobody

\* this step calls update_time, or lets a waiting invocation go on
Invokes == last'.caller # Nobody

\* the last step was a tick: update_time called by the Tk timer
Ticked == last.caller = "timer"

\* this step is a tick
Ticks == last'.caller = "timer"

\* the complete lines the invocation of this step finds: the buffer when
\* update_time is called, the line that has just arrived when it waited
Avail == IF running = Nobody THEN ser ELSE last'.arrived

\* the callbacks in the timer queue beside the one this step runs
OtherTimers ==
    IF running = Nobody /\ last'.caller = "timer" THEN pending - 1
    ELSE pending

\* lines that do not decode: checksum mismatch, unknown sentence type,
\* text that is no NMEA sentence
Undecodable == {"BadSum", "Unknown", "Noise"}

\* lines that decode to a sentence that is not RMC
NotRmc == {"Gga"}

\* RMC lines with valid fix, date and time
ValidRmc == {"RmcA", "RmcZero"}

\* RMC lines with a correct checksum and a time or date that is no number
BadFieldRmc == {"RmcBadTime"}

\* the UTC date and time each time-bearing RMC line carries, and the same
\* instant on the clocks of Tokyo (UTC+9): year, month, day, hour, minute,
\* second
UtcOf ==
    [RmcA    |-> <<1994, 3, 23, 12, 35, 19>>,
     RmcV    |-> <<1994, 3, 23, 12, 35, 19>>,
     RmcZero |-> <<2000, 1, 1, 0, 0, 0>>]

TokyoOf ==
    [RmcA    |-> <<1994, 3, 23, 21, 35, 19>>,
     RmcV    |-> <<1994, 3, 23, 21, 35, 19>>,
     RmcZero |-> <<2000, 1, 1, 9, 0, 0>>]

\* the time of line l in zone tz, an unknown zone falling back to UTC
Expected(l, tz) == IF tz = "Asia/Tokyo" THEN TokyoOf[l] ELSE UtcOf[l]

\* the hands of an analog face showing the time f
Hands(f) == <<f[4] % 12, f[5], f[6]>>

\* the visible widget shows the time f (the label, or the canvas of
\* GPS-CLOCK2 in analog mode)
Shows(f) ==
    IF app = "GPS-CLOCK2" /\ clock_mode = "analog"
    THEN canvas = Hands(f) ELSE time_label = f

\* the same after this step
ShowsNext(f) ==
    IF app = "GPS-CLOCK2" /\ clock_mode' = "analog"
    THEN canvas' = Hands(f) ELSE time_label' = f

\* the decodable lines of b, in order
Decodable(b) == SelectSeq(b, LAMBDA l : l \notin Undecodable)

\* the positions in b of the RMC lines with valid fix, date and time
ValidAt(b) == {i \in DOMAIN b : b[i] \in ValidRmc}

FirstValid(b) == b[CHOOSE i \in ValidAt(b) : \A j \in ValidAt(b) : i <= j]

(***************************************************************************)
(* Claims.                                                                 *)
(***************************************************************************)

\* C1: every tick that comes to its end, however it ends, leaves exactly
\* one more update_time callback in the timer queue.
C1_EveryTickReschedules ==
    [][(Ticks /\ last'.outcome # "readline")
         => pending' = OtherTimers + 1]_vars

\* C2: when selected_time_zone is a name the zone database does not know
\* and a tick finds an RMC line with valid fix, date and time, the tick does
\* not raise and the display shows the UTC date and time of that line.
C2_UnknownZoneFallsBackToUtc ==
    (/\ Ticked
     /\ selected_time_zone = BadZone
     /\ last.hit # <<>>
     /\ last.hit[1] \in ValidRmc)
        => (last.outcome = "break" /\ Shows(UtcOf[last.hit[1]]))

\* C3: a tick puts a time on the display only from an RMC line whose
\* fix-validity flag is A.
C3_OnlyValidFixIsShown ==
    (Ticked /\ last.outcome = "break") => Text[last.hit[1]].status = "A"

\* C4: no tick waits for input: it ends with the bytes that are in the
\* buffer, an unterminated line included.
C4_TickNeverWaitsForInput == Ticked => last.outcome # "readline"

\* C5: when a tick has shown a time, no line that was in the buffer when
\* the tick began is left in the buffer.
C5_TickDrainsBuffer == (Ticked /\ last.outcome = "break") => ser = <<>>

\* C6: when the buffer at a tick holds several RMC lines with valid fix,
\* date and time, the display shows after the tick the first of them in
\* the selected zone.
C6_FirstValidIsShown ==
    [][(Ticks /\ running = Nobody /\ Cardinality(ValidAt(ser)) >= 2)
         => ShowsNext(Expected(FirstValid(ser), selected_time_zone))]_vars

\* C7: at most one update_time callback is pending in the timer queue.
C7_SingleTickChain == pending <= 1

\* C8: an invocation of update_time that finds only lines that do not
\* decode or are not RMC (or no line at all) leaves the label text and the
\* analog face as they were.
C8_NoTimeBearingKeepsDisplay ==
    [][(Invokes /\ \A i \in DOMAIN Avail : Avail[i] \in Undecodable \cup NotRmc)
         => (time_label' = time_label /\ canvas' = canvas)]_vars

\* C8 witness: a timer tick has read a mix of undecodable and non-RMC
\* lines and nothing else, and the label still shows the time of an
\* earlier tick.
C8_Witness ==
    /\ last.caller = "timer" /\ last.outcome = "end"
    /\ last.nerr >= 1 /\ last.nread > last.nerr
    /\ time_label # Blank

\* C9: the lines that do not decode change nothing but the diagnostics:
\* every invocation of update_time leaves the display, the timer queue and
\* the program as it would without them, what is left in the buffer is the
\* same up to them, and an RMC line with valid fix, date and time that
\* follows only such lines is the line the invocation acts on, and the one
\* it shows whenever it shows a time.
C9_UndecodableLinesAreSkipped ==
    [][Invokes =>
        \A R \in {Result(last'.caller, Decodable(Avail), partial', <<>>, 0, 0,
                          IF last'.caller = "menu" THEN clock_mode'
                          ELSE clock_mode,
                          OtherTimers)} :
            /\ time_label' = R.time_label
            /\ canvas' = R.canvas
            /\ pending' = R.pending
            /\ running' = R.running
            /\ phase' = R.phase
            /\ clock_mode' = R.clock_mode
            /\ last'.outcome = R.last.outcome
            /\ last'.hit = R.last.hit
            /\ Decodable(ser') = R.ser
            /\ \A i \in DOMAIN Avail :
                 (/\ Avail[i] \in ValidRmc
                  /\ \A j \in 1..(i - 1) : Avail[j] \in Undecodable)
                    => /\ last'.hit = <<Avail[i]>>
                       /\ last'.outcome = "break" =>
                            ShowsNext(Expected(Avail[i], selected_time_zone))
      ]_vars

\* C9 witness: a timer tick has printed a parse error and then shown the
\* midnight line that followed, on the clocks of Tokyo.
C9_Witness ==
    /\ last.caller = "timer" /\ last.outcome = "break"
    /\ last.nerr >= 1 /\ last.nread = last.nerr + 1
    /\ last.hit = <<"RmcZero">>
    /\ selected_time_zone = "Asia/Tokyo"
    /\ time_label = TokyoOf["RmcZero"]

\* C10: an RMC line with a correct checksum and a time or date field that
\* is no number is never the line a tick acts on, and no TypeError leaves
\* the tick.
C10_BadFieldIsUnparseable ==
    Ticked =>
        /\ (last.hit = <<>> \/ last.hit[1] \notin BadFieldRmc)
        /\ last.outcome # "TypeError"

\* C11: update_time hands to the parser only text that a line terminator
\* ended: an invocation parses exactly as many texts as complete lines
\* leave the buffer, it leaves the bytes of an unterminated line where they
\* are and does not end while they are there unless a hit ended it, and the
\* invocation that waited for the terminator parses the one whole line
\* that its arrival completes.
C11_OnlyTerminatedLinesAreParsed ==
    [][Invokes =>
        IF running = Nobody
        THEN /\ last'.nread = Len(ser) - Len(ser')
             /\ partial' = partial
             /\ partial => last'.outcome # "end"
        ELSE /\ last'.nread = last.nread + 1
             /\ last'.arrived # <<>>
             /\ partial /\ ~partial'
      ]_vars

\* C11 witness: a tick read a complete line, found the bytes of an
\* unterminated one and waited; the terminator has arrived and the tick has
\* parsed the whole line as its second text.
C11_Witness ==
    /\ last.caller = "timer" /\ last.arrived # <<>>
    /\ last.nread = 2 /\ running = Nobody /\ ~partial

\* C12: no update_time invocation changes selected_time_zone (only the
\* menu's set_time_zone does, which is no invocation and leaves the name it
\* was given, the one it saves to config.ini), and every invocation that
\* shows a time shows the date and time of its line converted to the zone
\* selected when it runs: the zone of the last set_time_zone before it.
C12_TickUsesSelectedZone ==
    [][/\ Invokes =>
            /\ selected_time_zone' = selected_time_zone
            /\ last'.outcome = "break" =>
                 ShowsNext(Expected(last'.hit[1], selected_time_zone))
       /\ (selected_time_zone' # selected_time_zone \/ config' # config) =>
            /\ ~Invokes
            /\ selected_time_zone' \in TimeZoneMenu(app)
            /\ config' = selected_time_zone'
      ]_vars

\* C12 witness: GPS-CLOCK2 showed a line on the clocks of Tokyo in digital
\* mode; UTC was then selected from the menu, and a later tick, in analog
\* mode, has drawn the midnight line at UTC.
C12_Witness ==
    /\ last.caller = "timer" /\ last.outcome = "break"
    /\ last.hit = <<"RmcZero">>
    /\ config = "UTC" /\ selected_time_zone = "UTC"
    /\ clock_mode = "analog"
    /\ canvas = Hands(UtcOf["RmcZero"])
    /\ time_label = TokyoOf["RmcA"]

\* C13: in GPS-CLOCK2 the update_time call that __init__ makes never reads
\* clock_mode before it is assigned: it does not end by AttributeError,
\* whatever the serial buffer holds at construction.
C13_ClockModeSetBeforeFirstTick ==
    (app = "GPS-CLOCK2" /\ last.caller = "init")
        => last.outcome # "AttributeError"

\* the date and time of every time-bearing RMC line, in every known zone
GpsTimes ==
    {UtcOf[l] : l \in DOMAIN UtcOf} \cup {TokyoOf[l] : l \in DOMAIN TokyoOf}

\* C14: whatever the label or the analog face shows is the date and time of
\* a received RMC line converted to a zone; neither ever shows a time from
\* another source.
C14_DisplayShowsOnlyGpsTime ==
    /\ time_label \in {Blank} \cup GpsTimes
    /\ canvas \in {Blank} \cup {Hands(f) : f \in GpsTimes}

\* C15: in GPS-CLOCK2, once an update_time invocation has put the time of a
\* line on the label or on the analog face, the widget that is visible is
\* never blank (the least the claim asks of it: that it shows the last time
\* produced).
C15_VisibleWidgetShowsLatest ==
    (/\ app = "GPS-CLOCK2"
     /\ (time_label \in GpsTimes \/ canvas \in {Hands(f) : f \in GpsTimes}))
        => IF clock_mode = "analog" THEN canvas # Blank
           ELSE time_label # Blank

\* C16: when the first RMC line with valid fix, date and time in the buffer
\* at a tick is the one whose time is 00:00:00, the tick acts on it and the
\* display shows midnight UTC of its date converted to the selected zone.
C16_MidnightIsAccepted ==
    [][(/\ Ticks /\ running = Nobody
        /\ ValidAt(ser) # {}
        /\ FirstValid(ser) = "RmcZero")
         => /\ last'.hit = <<"RmcZero">>
            /\ last'.outcome = "break"
            /\ ShowsNext(Expected("RmcZero", selected_time_zone))]_vars

\* the two-digit year in the date field of line l
YYOf(l) == IntVal(Slice(Text[l].date, 4, 6))

\* an update_time invocation has just put the date and time of a line on
\* the label, at zone UTC
ShownAtUtc ==
    /\ Invoked /\ last.outcome = "break"
    /\ selected_time_zone = "UTC"
    /\ (app = "GPS-CLOCK" \/ clock_mode = "digital")

\* C17 as stated: the year on the label after a tick at zone UTC is 2000
\* plus the two-digit year of the line's date field.
C17_YearIn2000s ==
    (Ticked /\ ShownAtUtc) => time_label[1] = 2000 + YYOf(last.hit[1])

\* C17 amended: for every two-digit year YY the decoded UTC date has year
\* 2000 + YY when YY is 00..68 and 1900 + YY when YY is 69..99, and that
\* is the year on the label after an invocation at zone UTC.
C17_YearPivotsAt69 ==
    /\ \A yy \in 0..99 :
         /\ YearOfField[yy].tag = "date"
         /\ yy <= 68 => YearOfField[yy].year = 2000 + yy
         /\ yy >= 69 => YearOfField[yy].year = 1900 + yy
    /\ ShownAtUtc =>
         /\ YYOf(last.hit[1]) <= 68 => time_label[1] = 2000 + YYOf(last.hit[1])
         /\ YYOf(last.hit[1]) >= 69 => time_label[1] = 1900 + YYOf(last.hit[1])

\* C17 witness: a tick at zone UTC has read the line dated 230394 and the
\* label shows the year 1994.
C17_Witness ==
    /\ Ticked /\ ShownAtUtc
    /\ last.hit = <<"RmcA">> /\ YYOf("RmcA") = 94
    /\ time_label[1] = 1994

====
